---- MODULE Spec2Model ----
(***************************************************************************)
(* Model of src/client/client.go: the RPC client's call multiplexing.      *)
(* Threads: one caller goroutine per invocation of Go / Call, the callers  *)
(* of Close, and the single receive goroutine.          Every operation   *)
(* on client.mu is one atomic step (the lock is held for the whole         *)
(* function), except terminateCalls, which keeps sending and mu while it   *)
(* delivers on the calls' channels and is therefore modelled step by step. *)
(***************************************************************************)
EXTENDS Integers, Sequences, FiniteSets, TLC

\* ---------------------------------------------------------------- bounds
NumCalls == 2
MaxCloses == 2
SharedCap == 1

\* ------------------------------------------------------ program constants
FirstSeq == 1
DefaultDoneCap == 10
CallDoneCap == 1

Calls == 1..NumCalls
NoCall == 0
Free == 0
RecvId == -1
SharedChan == 0
Chans == 0..NumCalls

NoErr == "nil"
ErrShutdown == "connection has been shut down"
HeaderErrors == {"", "boom", "bad%d"}
ReadHeaderErrors == {"EOF"}
ReadBodyErrors == {"decode"}
WriteErrors == {"broken pipe"}
CloseErrors == {"close failed"}
Bodies == {1, 2}
NoReply == 0
HeaderSeqs == 0..NumCalls

VARIABLES
  seq, pending, closing, shutdown,      \* Client fields guarded by mu
  sending, muHeld, header,              \* the two locks and client.header
  pc, kind, callDone, callSeq, callError, callReply, callResult,
  chans,                                \* contents of the Done channels
  rpc, rheader, rcall, rcase, rerr, todo, tcur,   \* the receive goroutine
  bodyDue,                              \* headers read whose body is unread
  closes, cret, codecCloses, closedOK,  \* the Close invocations
  wire,                                 \* the frames the codec has written
  delivered, regOrder, wres, replyFrom, afterClose   \* history

vars == <<seq, pending, closing, shutdown, sending, muHeld, header,
          pc, kind, callDone, callSeq, callError, callReply, callResult,
          chans, rpc, rheader, rcall, rcase, rerr, todo, tcur, bodyDue,
          closes, cret, codecCloses, closedOK, wire,
          delivered, regOrder, wres, replyFrom, afterClose>>

clientVars == <<seq, pending, closing, shutdown>>
recvVars == <<rpc, rheader, rcall, rcase, rerr, todo, tcur, bodyDue>>
closeVars == <<closes, cret, codecCloses, closedOK>>

\* ------------------------------------------------------------ pure parts

\* fmt.Errorf(header.Error): the message is used as the format string, so a
\* verb without an operand is rendered as %!verb(MISSING).
Errorf(s) == IF s = "bad%d" THEN "bad%!d(MISSING)" ELSE s

\* errors.New("reading body " + err.Error())
ReadingBody(e) == IF e = "decode" THEN "reading body decode" ELSE "reading body EOF"

\* cap(call.Done) for the channel a call delivers on
Cap(q) ==
  IF q = SharedChan THEN SharedCap
  ELSE IF kind[q] = "Call" THEN CallDoneCap
  ELSE IF kind[q] = "Unbuffered" THEN 0 ELSE DefaultDoneCap

\* call.done(): the send blocks while the channel is full
CanDeliver(c) == Len(chans[callDone[c]]) < Cap(callDone[c])

done(c) == [chans EXCEPT ![callDone[c]] = Append(@, c)]

isUnavailableNoClosing(cl, sh) == sh
isUnavailableNoShutdown(cl, sh) == cl
isUnavailable(cl, sh) == cl \/ sh

nextSeqStuck(s) == s
nextSeq(s) == s + 1

lookupAny(p, s) ==
  IF DOMAIN p = {} THEN NoCall
  ELSE p[CHOOSE k \in DOMAIN p : \A j \in DOMAIN p : k <= j]
lookup(p, s) == IF s \in DOMAIN p THEN p[s] ELSE NoCall

deleteNothing(p, s) == p
delete(p, s) == [k \in (DOMAIN p) \ {s} |-> p[k]]

alreadyClosingNever(cl) == FALSE
alreadyClosing(cl) == cl

\* every case of the switch in receive reads the body next
caseNextSkipsOrphan(call) == IF call = NoCall THEN "readHeader" ELSE "readBody"
caseNext(call) == "readBody"

\* cap(done) == 0: log.Panic, the rest of Go is not run
unbufferedNextSends == "lock"
unbufferedNext == "panicked"

\* for err == nil: the loop of receive goes on, or is left for terminateCalls
loopTestLeaves(err) == "termLock"
loopTest(err) == IF err = NoErr THEN "readHeader" ELSE "termLock"

\* after cc.Write: return, or on an error the removeCall branch; no retry
afterWriteRetries(err) == IF err = NoErr THEN "unlock" ELSE "write"
afterWrite(err) == IF err = NoErr THEN "unlock" ELSE "remove"

sendingLockAlways(holder) == TRUE
sendingLock(holder) == holder = Free

\* terminateCalls takes the sending lock before mu
termSendingLockSkipped(holder) == TRUE
termSendingLock(holder) == sendingLock(holder)

PendingCalls == {pending[k] : k \in DOMAIN pending}

\* IsAvailable: under mu, !client.shutdown && !client.closing
IsAvailable == ~shutdown /\ ~closing

\* ------------------------------------------------------------------ Init
Init ==
  /\ seq = FirstSeq
  /\ pending = <<>>
  /\ closing = FALSE
  /\ shutdown = FALSE
  /\ sending = Free
  /\ muHeld = FALSE
  /\ header = [Service |-> NoCall, Seq |-> 0, Error |-> ""]
  /\ pc = [c \in Calls |-> "idle"]
  /\ kind = [c \in Calls |-> "none"]
  /\ callDone = [c \in Calls |-> c]
  /\ callSeq = [c \in Calls |-> 0]
  /\ callError = [c \in Calls |-> NoErr]
  /\ callReply = [c \in Calls |-> NoReply]
  /\ callResult = [c \in Calls |-> "none"]
  /\ chans = [q \in Chans |-> <<>>]
  /\ rpc = "readHeader"
  /\ rheader = [Seq |-> 0, Error |-> ""]
  /\ rcall = NoCall
  /\ rcase = "none"
  /\ rerr = NoErr
  /\ todo = {}
  /\ tcur = NoCall
  /\ bodyDue = 0
  /\ closes = 0
  /\ cret = "none"
  /\ codecCloses = 0
  /\ closedOK = FALSE
  /\ wire = <<>>
  /\ delivered = [c \in Calls |-> 0]
  /\ regOrder = <<>>
  /\ wres = [c \in Calls |-> "none"]
  /\ replyFrom = [c \in Calls |-> [Seq |-> 0, Body |-> NoReply]]
  /\ afterClose = [c \in Calls |-> FALSE]

\* ------------------------------------------------------------- Go / Call

\* Go with done = nil (a fresh channel of capacity 10) or a caller-supplied
\* buffered channel; Call passes a fresh channel of capacity 1.
Go(c, k, d) ==
  /\ pc[c] = "idle"
  /\ k \in {"Go", "Call"}
  /\ d \in (IF k = "Go" THEN {c, SharedChan} ELSE {c})
  /\ kind' = [kind EXCEPT ![c] = k]
  /\ callDone' = [callDone EXCEPT ![c] = d]
  /\ afterClose' = [afterClose EXCEPT ![c] = closedOK]
  /\ pc' = [pc EXCEPT ![c] = "lock"]
  /\ UNCHANGED <<clientVars, sending, muHeld, header, callSeq, callError,
                 callReply, callResult, chans, recvVars, closeVars, wire,
                 delivered, regOrder, wres, replyFrom>>

\* Go with a caller-supplied channel of capacity 0: log.Panic before the
\* Call is built.
GoUnbuffered(c) ==
  /\ pc[c] = "idle"
  /\ kind' = [kind EXCEPT ![c] = "Unbuffered"]
  /\ pc' = [pc EXCEPT ![c] = unbufferedNext]
  /\ UNCHANGED <<clientVars, sending, muHeld, header, callDone, callSeq,
                 callError, callReply, callResult, chans, recvVars,
                 closeVars, wire, delivered, regOrder, wres, replyFrom,
                 afterClose>>

\* ------------------------------------------------------------------ send

\* client.sending.Lock()
sendLock(c) ==
  /\ pc[c] = "lock"
  /\ sendingLock(sending)
  /\ sending' = c
  /\ pc' = [pc EXCEPT ![c] = "register"]
  /\ UNCHANGED <<clientVars, muHeld, header, kind, callDone, callSeq,
                 callError, callReply, callResult, chans, recvVars,
                 closeVars, wire, delivered, regOrder, wres, replyFrom,
                 afterClose>>

\* registerCall, and on failure call.Error = err
registerCall(c) ==
  /\ pc[c] = "register"
  /\ ~muHeld
  /\ IF isUnavailable(closing, shutdown)
     THEN /\ callError' = [callError EXCEPT ![c] = ErrShutdown]
          /\ pc' = [pc EXCEPT ![c] = "done"]
          /\ UNCHANGED <<seq, pending, callSeq, regOrder>>
     ELSE /\ callSeq' = [callSeq EXCEPT ![c] = seq]
          /\ pending' = [k \in (DOMAIN pending) \cup {seq} |->
                           IF k = seq THEN c ELSE pending[k]]
          /\ seq' = nextSeq(seq)
          /\ regOrder' = Append(regOrder, c)
          /\ pc' = [pc EXCEPT ![c] = "header"]
          /\ UNCHANGED <<callError>>
  /\ UNCHANGED <<closing, shutdown, sending, muHeld, header, kind, callDone,
                 callReply, callResult, chans, recvVars, closeVars, wire,
                 delivered, wres, replyFrom, afterClose>>

\* prepare header
sendHeader(c) ==
  /\ pc[c] = "header"
  /\ header' = [Service |-> c, Seq |-> callSeq[c], Error |-> ""]
  /\ pc' = [pc EXCEPT ![c] = "write"]
  /\ UNCHANGED <<clientVars, sending, muHeld, kind, callDone, callSeq,
                 callError, callReply, callResult, chans, recvVars,
                 closeVars, wire, delivered, regOrder, wres, replyFrom,
                 afterClose>>

\* cc.Write, first half: the header record goes to the stream
writeHeader(c) ==
  /\ pc[c] = "write"
  /\ wire' = Append(wire, [frame |-> "header", seq |-> header.Seq, call |-> header.Service])
  /\ pc' = [pc EXCEPT ![c] = "writeBody"]
  /\ UNCHANGED <<clientVars, sending, muHeld, header, kind, callDone,
                 callSeq, callError, callReply, callResult, chans, recvVars,
                 closeVars, delivered, regOrder, wres, replyFrom, afterClose>>

\* cc.Write, second half: call.Args goes to the stream and Write returns
writeBody(c, err) ==
  /\ pc[c] = "writeBody"
  /\ err \in WriteErrors \cup {NoErr}
  /\ wire' = Append(wire, [frame |-> "body", seq |-> callSeq[c], call |-> c])
  /\ wres' = [wres EXCEPT ![c] = err]
  /\ pc' = [pc EXCEPT ![c] = afterWrite(err)]
  /\ UNCHANGED <<clientVars, sending, muHeld, header, kind, callDone,
                 callSeq, callError, callReply, callResult, chans, recvVars,
                 closeVars, delivered, regOrder, replyFrom, afterClose>>

\* the write failed: removeCall(seq), and call.Error = err if it was there
sendRemove(c) ==
  /\ pc[c] = "remove"
  /\ ~muHeld
  /\ LET call == lookup(pending, callSeq[c]) IN
       /\ pending' = delete(pending, callSeq[c])
       /\ IF call # NoCall
          THEN /\ callError' = [callError EXCEPT ![call] = wres[c]]
               /\ pc' = [pc EXCEPT ![c] = "done"]
          ELSE /\ pc' = [pc EXCEPT ![c] = "unlock"]
               /\ UNCHANGED <<callError>>
  /\ UNCHANGED <<seq, closing, shutdown, sending, muHeld, header, kind,
                 callDone, callSeq, callReply, callResult, chans, recvVars,
                 closeVars, wire, delivered, regOrder, wres, replyFrom,
                 afterClose>>

\* call.done() in send
sendDone(c) ==
  /\ pc[c] = "done"
  /\ CanDeliver(c)
  /\ chans' = done(c)
  /\ delivered' = [delivered EXCEPT ![c] = @ + 1]
  /\ pc' = [pc EXCEPT ![c] = "unlock"]
  /\ UNCHANGED <<clientVars, sending, muHeld, header, kind, callDone,
                 callSeq, callError, callReply, callResult, recvVars,
                 closeVars, wire, regOrder, wres, replyFrom, afterClose>>

\* deferred client.sending.Unlock(); send and Go return
sendUnlock(c) ==
  /\ pc[c] = "unlock"
  /\ sending' = Free
  /\ pc' = [pc EXCEPT ![c] = IF kind[c] = "Call" THEN "wait" ELSE "returned"]
  /\ UNCHANGED <<clientVars, muHeld, header, kind, callDone, callSeq,
                 callError, callReply, callResult, chans, recvVars,
                 closeVars, wire, delivered, regOrder, wres, replyFrom,
                 afterClose>>

\* Call: call := <-Go(...).Done; return call.Error
Call(c) ==
  /\ pc[c] = "wait"
  /\ chans[callDone[c]] # <<>>
  /\ LET call == Head(chans[callDone[c]]) IN
       callResult' = [callResult EXCEPT ![c] = callError[call]]
  /\ chans' = [chans EXCEPT ![callDone[c]] = Tail(@)]
  /\ pc' = [pc EXCEPT ![c] = "finished"]
  /\ UNCHANGED <<clientVars, sending, muHeld, header, kind, callDone,
                 callSeq, callError, callReply, recvVars, closeVars, wire,
                 delivered, regOrder, wres, replyFrom, afterClose>>

\* The caller of Go receives from the Done channel it supplied.  (A channel
\* made by Go itself holds at most the one event of its call and never fills.)
Consume(q) ==
  /\ q = SharedChan
  /\ chans[q] # <<>>
  /\ chans' = [chans EXCEPT ![q] = Tail(@)]
  /\ UNCHANGED <<clientVars, sending, muHeld, header, pc, kind, callDone,
                 callSeq, callError, callReply, callResult, recvVars,
                 closeVars, wire, delivered, regOrder, wres, replyFrom,
                 afterClose>>

\* ----------------------------------------------------------------- Close

\* Close: under mu, ErrShutdown if already closing, else closing = true and
\* the result of cc.Close()
Close(err) ==
  /\ closes < MaxCloses
  /\ ~muHeld
  /\ err \in CloseErrors \cup {NoErr}
  /\ closes' = closes + 1
  /\ IF alreadyClosing(closing)
     THEN /\ cret' = ErrShutdown
          /\ UNCHANGED <<closing, codecCloses, closedOK>>
     ELSE /\ closing' = TRUE
          /\ codecCloses' = codecCloses + 1
          /\ cret' = err
          /\ closedOK' = (closedOK \/ err = NoErr)
  /\ UNCHANGED <<seq, pending, shutdown, sending, muHeld, header, pc, kind,
                 callDone, callSeq, callError, callReply, callResult, chans,
                 recvVars, wire, delivered, regOrder, wres, replyFrom,
                 afterClose>>

\* --------------------------------------------------------------- receive

\* cc.ReadHeader(&header) into the header of this iteration: the peer decides
\* what arrives, or the read fails and the loop is left
readHeader(s, e, err) ==
  /\ rpc = "readHeader"
  /\ IF err = NoErr
     THEN /\ s \in HeaderSeqs /\ e \in HeaderErrors
          /\ rheader' = [Seq |-> s, Error |-> e]
          /\ rpc' = "remove"
          /\ UNCHANGED <<rerr, rcase>>
     ELSE /\ err \in ReadHeaderErrors
          /\ s = 0 /\ e = ""
          /\ rerr' = err
          /\ rcase' = "header"
          /\ rpc' = "termLock"
          /\ UNCHANGED rheader
  /\ bodyDue' = IF err = NoErr THEN bodyDue + 1 ELSE bodyDue
  /\ UNCHANGED <<seq, pending, closing, shutdown, sending, muHeld, header,
                 pc, kind, callDone, callSeq, callError, callReply,
                 callResult, chans, rcall, todo, tcur, closes, cret,
                 codecCloses, closedOK, wire, delivered, regOrder, wres,
                 replyFrom, afterClose>>

\* call := removeCall(header.Seq) and the choice of the switch case; in the
\* second case call.Error = fmt.Errorf(header.Error)
recvRemove ==
  /\ rpc = "remove"
  /\ ~muHeld
  /\ LET call == lookup(pending, rheader.Seq) IN
       /\ pending' = delete(pending, rheader.Seq)
       /\ rcall' = call
       /\ rcase' = IF call = NoCall THEN "nil"
                   ELSE IF rheader.Error # "" THEN "remote" ELSE "normal"
       /\ IF call # NoCall /\ rheader.Error # ""
          THEN callError' = [callError EXCEPT ![call] = Errorf(rheader.Error)]
          ELSE UNCHANGED callError
  /\ rpc' = caseNext(rcall')
  /\ UNCHANGED bodyDue
  /\ UNCHANGED <<seq, closing, shutdown, sending, muHeld, header, pc, kind,
                 callDone, callSeq, callReply, callResult, chans, rheader,
                 rerr, todo, tcur, closes, cret, codecCloses, closedOK, wire,
                 delivered, regOrder, wres, replyFrom, afterClose>>

\* The locals of one loop iteration (header, call) end with the iteration.
EndIteration(next) ==
  /\ rpc' = next
  /\ rheader' = [Seq |-> 0, Error |-> ""]
  /\ rcall' = NoCall
  /\ rcase' = IF next = "readHeader" THEN "none" ELSE rcase

\* err = cc.ReadBody(nil) in the first two cases, cc.ReadBody(call.Reply)
\* in the third, where a failure becomes call.Error = "reading body ..."
readBody(b, err) ==
  /\ rpc = "readBody"
  /\ err \in ReadBodyErrors \cup {NoErr}
  /\ rerr' = err
  /\ IF rcase = "normal"
     THEN /\ b \in Bodies
          /\ IF err = NoErr
             THEN /\ callReply' = [callReply EXCEPT ![rcall] = b]
                  /\ replyFrom' = [replyFrom EXCEPT ![rcall] =
                                     [Seq |-> rheader.Seq, Body |-> b]]
                  /\ UNCHANGED callError
             ELSE /\ callError' = [callError EXCEPT ![rcall] = ReadingBody(err)]
                  /\ UNCHANGED <<callReply, replyFrom>>
          /\ rpc' = "done"
          /\ UNCHANGED <<rheader, rcall, rcase>>
     ELSE /\ b = NoReply
          /\ IF rcase = "remote"
             THEN /\ rpc' = "done"
                  /\ UNCHANGED <<rheader, rcall, rcase>>
             ELSE EndIteration(loopTest(err))
          /\ UNCHANGED <<callReply, replyFrom, callError>>
  /\ bodyDue' = bodyDue - 1
  /\ UNCHANGED <<seq, pending, closing, shutdown, sending, muHeld, header,
                 pc, kind, callDone, callSeq, callResult, chans, todo, tcur,
                 closes, cret, codecCloses, closedOK, wire, delivered,
                 regOrder, wres, afterClose>>

\* call.done() in receive, then the loop test err == nil
recvDone ==
  /\ rpc = "done"
  /\ CanDeliver(rcall)
  /\ chans' = done(rcall)
  /\ delivered' = [delivered EXCEPT ![rcall] = @ + 1]
  /\ EndIteration(loopTest(rerr))
  /\ UNCHANGED bodyDue
  /\ UNCHANGED <<seq, pending, closing, shutdown, sending, muHeld, header,
                 pc, kind, callDone, callSeq, callError, callReply,
                 callResult, rerr, todo, tcur, closes, cret, codecCloses,
                 closedOK, wire, regOrder, wres, replyFrom, afterClose>>

\* -------------------------------------------------------- terminateCalls

\* client.sending.Lock()
termLock ==
  /\ rpc = "termLock"
  /\ termSendingLock(sending)
  /\ sending' = RecvId
  /\ rpc' = "termMu"
  /\ UNCHANGED bodyDue
  /\ UNCHANGED <<seq, pending, closing, shutdown, muHeld, header, pc, kind,
                 callDone, callSeq, callError, callReply, callResult, chans,
                 rheader, rcall, rcase, rerr, todo, tcur, closes, cret,
                 codecCloses, closedOK, wire, delivered, regOrder, wres,
                 replyFrom, afterClose>>

\* client.mu.Lock(); client.shutdown = true; the range over pending starts
termMu ==
  /\ rpc = "termMu"
  /\ ~muHeld
  /\ muHeld' = TRUE
  /\ shutdown' = TRUE
  /\ todo' = PendingCalls
  /\ rpc' = "termLoop"
  /\ UNCHANGED bodyDue
  /\ UNCHANGED <<seq, pending, closing, sending, header, pc, kind, callDone,
                 callSeq, callError, callReply, callResult, chans, rheader,
                 rcall, rcase, rerr, tcur, closes, cret, codecCloses,
                 closedOK, wire, delivered, regOrder, wres, replyFrom,
                 afterClose>>

\* one iteration of the range, in map order: call.Error = err
termNext(c) ==
  /\ rpc = "termLoop"
  /\ c \in todo
  /\ todo' = todo \ {c}
  /\ tcur' = c
  /\ callError' = [callError EXCEPT ![c] = rerr]
  /\ rpc' = "termDone"
  /\ UNCHANGED bodyDue
  /\ UNCHANGED <<seq, pending, closing, shutdown, sending, muHeld, header,
                 pc, kind, callDone, callSeq, callReply, callResult, chans,
                 rheader, rcall, rcase, rerr, closes, cret, codecCloses,
                 closedOK, wire, delivered, regOrder, wres, replyFrom,
                 afterClose>>

\* call.done() in terminateCalls, with sending and mu held
termDone ==
  /\ rpc = "termDone"
  /\ CanDeliver(tcur)
  /\ chans' = done(tcur)
  /\ delivered' = [delivered EXCEPT ![tcur] = @ + 1]
  /\ tcur' = NoCall
  /\ rpc' = "termLoop"
  /\ UNCHANGED bodyDue
  /\ UNCHANGED <<seq, pending, closing, shutdown, sending, muHeld, header,
                 pc, kind, callDone, callSeq, callError, callReply,
                 callResult, rheader, rcall, rcase, rerr, todo, closes, cret,
                 codecCloses, closedOK, wire, regOrder, wres, replyFrom,
                 afterClose>>

\* the range is over: deferred mu.Unlock() and sending.Unlock(); receive ends
termReturn ==
  /\ rpc = "termLoop"
  /\ todo = {}
  /\ muHeld' = FALSE
  /\ sending' = Free
  /\ rpc' = "exited"
  /\ UNCHANGED bodyDue
  /\ UNCHANGED <<seq, pending, closing, shutdown, header, pc, kind, callDone,
                 callSeq, callError, callReply, callResult, chans, rheader,
                 rcall, rcase, rerr, todo, tcur, closes, cret, codecCloses,
                 closedOK, wire, delivered, regOrder, wres, replyFrom,
                 afterClose>>

\* ------------------------------------------------------------------ Next
Next ==
  \/ \E c \in Calls, k \in {"Go", "Call"}, d \in Chans : Go(c, k, d)
  \/ \E c \in Calls : GoUnbuffered(c)
  \/ \E c \in Calls : sendLock(c)
  \/ \E c \in Calls : registerCall(c)
  \/ \E c \in Calls : sendHeader(c)
  \/ \E c \in Calls : writeHeader(c)
  \/ \E c \in Calls, err \in WriteErrors \cup {NoErr} : writeBody(c, err)
  \/ \E c \in Calls : sendRemove(c)
  \/ \E c \in Calls : sendDone(c)
  \/ \E c \in Calls : sendUnlock(c)
  \/ \E c \in Calls : Call(c)
  \/ Consume(SharedChan)
  \/ \E err \in CloseErrors \cup {NoErr} : Close(err)
  \/ \E s \in HeaderSeqs, e \in HeaderErrors,
        err \in ReadHeaderErrors \cup {NoErr} : readHeader(s, e, err)
  \/ recvRemove
  \/ \E b \in Bodies \cup {NoReply}, err \in ReadBodyErrors \cup {NoErr} : readBody(b, err)
  \/ recvDone
  \/ termLock
  \/ termMu
  \/ \E c \in Calls : termNext(c)
  \/ termDone
  \/ termReturn

Spec == Init /\ [][Next]_vars

\* Scheduling: a goroutine that can take its next step eventually takes it.
\* Nothing forces a caller to start a Go, to Close, or to receive from a Done
\* channel it passed to Go, and nothing forces the peer to send a header.
Fairness ==
  /\ \A c \in Calls :
       /\ SF_vars(sendLock(c))
       /\ WF_vars(registerCall(c))
       /\ WF_vars(sendHeader(c))
       /\ WF_vars(writeHeader(c))
       /\ WF_vars(\E err \in WriteErrors \cup {NoErr} : writeBody(c, err))
       /\ WF_vars(sendRemove(c))
       /\ WF_vars(sendDone(c))
       /\ WF_vars(sendUnlock(c))
       /\ WF_vars(Call(c))
       /\ WF_vars(termNext(c))
  /\ WF_vars(recvRemove)
  /\ WF_vars(\E b \in Bodies \cup {NoReply}, err \in ReadBodyErrors \cup {NoErr} : readBody(b, err))
  /\ WF_vars(recvDone)
  /\ SF_vars(termLock)
  /\ WF_vars(termMu)
  /\ WF_vars(termDone)
  /\ WF_vars(termReturn)

FairSpec == Spec /\ Fairness

\* A codec whose reads fail once its Close has been called: no ReadHeader or
\* ReadBody returns nil after that, and a pending ReadHeader returns.
closedReadHeader(s, e, err) ==
  /\ codecCloses > 0 => err # NoErr
  /\ readHeader(s, e, err)

closedReadBody(b, err) ==
  /\ codecCloses > 0 => err # NoErr
  /\ readBody(b, err)

NextClosed ==
  \/ \E c \in Calls, k \in {"Go", "Call"}, d \in Chans : Go(c, k, d)
  \/ \E c \in Calls : GoUnbuffered(c)
  \/ \E c \in Calls : sendLock(c)
  \/ \E c \in Calls : registerCall(c)
  \/ \E c \in Calls : sendHeader(c)
  \/ \E c \in Calls : writeHeader(c)
  \/ \E c \in Calls, err \in WriteErrors \cup {NoErr} : writeBody(c, err)
  \/ \E c \in Calls : sendRemove(c)
  \/ \E c \in Calls : sendDone(c)
  \/ \E c \in Calls : sendUnlock(c)
  \/ \E c \in Calls : Call(c)
  \/ Consume(SharedChan)
  \/ \E err \in CloseErrors \cup {NoErr} : Close(err)
  \/ \E s \in HeaderSeqs, e \in HeaderErrors,
        err \in ReadHeaderErrors \cup {NoErr} : closedReadHeader(s, e, err)
  \/ recvRemove
  \/ \E b \in Bodies \cup {NoReply}, err \in ReadBodyErrors \cup {NoErr} :
        closedReadBody(b, err)
  \/ recvDone
  \/ termLock
  \/ termMu
  \/ \E c \in Calls : termNext(c)
  \/ termDone
  \/ termReturn

ClosedSpec ==
  /\ Init /\ [][NextClosed]_vars
  /\ Fairness
  /\ WF_vars(\E err \in ReadHeaderErrors : closedReadHeader(0, "", err))

\* ------------------------------------------------------------ properties

TypeOK ==
  /\ seq \in 1..(NumCalls + 1)
  /\ DOMAIN pending \subseteq 1..NumCalls
  /\ \A c \in Calls : delivered[c] \in 0..1

GoReturned(c) == pc[c] \in {"returned", "wait", "finished"}
InReceive(c) == rcall = c /\ rpc \in {"readBody", "done"}
TermPcs == {"termLock", "termMu", "termLoop", "termDone", "exited"}

\* C1: a call never receives a second completion event, and every path that
\* completes a call delivers exactly one: once Go has returned, a call that is
\* neither pending nor in the hands of receive has exactly one event (failed
\* registration, failed Write, reply, remote error, decode failure), and once
\* terminateCalls has returned every call whose Go has returned has exactly one.
ExactlyOneCompletion ==
  \A c \in Calls :
    /\ delivered[c] <= 1
    /\ (GoReturned(c) /\ c \notin PendingCalls /\ ~InReceive(c)) => delivered[c] = 1
    /\ (GoReturned(c) /\ rpc = "exited") => delivered[c] = 1
    /\ pc[c] = "finished" => delivered[c] = 1

\* C1 witness: the Write of a call failed, but receive had already removed the
\* call for a response with its sequence number and completed it; send found
\* nothing to remove and Go returned, with one event delivered.
WriteFailureLostRace ==
  \E c \in Calls :
    /\ wres[c] \in WriteErrors
    /\ pc[c] = "returned"
    /\ callError[c] = NoErr
    /\ delivered[c] = 1

\* C2: the k-th successful registration receives sequence number k (from 1),
\* the counter is always one past the number of registrations, so a number is
\* never handed out again, and pending maps each number to the call that has it.
SeqInRegistrationOrder ==
  /\ seq = Len(regOrder) + 1
  /\ \A i \in 1..Len(regOrder) : callSeq[regOrder[i]] = i
  /\ \A i, j \in 1..Len(regOrder) : i # j => regOrder[i] # regOrder[j]
  /\ \A k \in DOMAIN pending : k >= 1 /\ k < seq /\ callSeq[pending[k]] = k

\* C2 witness: two registrations, the first call already removed when the
\* second one holds number 2.
SecondSeqAfterRemoval ==
  /\ Len(regOrder) = 2
  /\ callSeq[regOrder[2]] = 2
  /\ DOMAIN pending = {2}
  /\ delivered[regOrder[1]] = 1

\* C3: no call that has received its completion event is in pending, and once
\* terminateCalls has returned pending is empty.
CompletedNotPending ==
  /\ \A c \in Calls : delivered[c] >= 1 => c \notin PendingCalls
  /\ rpc = "exited" => DOMAIN pending = {}

\* C4: once a read has failed, terminateCalls runs to its end: shutdown is
\* set and every call still in pending has received its completion event
\* carrying the read error.
ReadFailureTerminatesAll ==
  (rpc = "termLock") ~>
     (/\ rpc = "exited"
      /\ shutdown
      /\ \A c \in PendingCalls : delivered[c] = 1 /\ callError[c] = rerr)

\* C5: a Go or Call started after a successful Close is never registered and
\* writes nothing; the Call it returns carries ErrShutdown, and Call returns
\* ErrShutdown.
CloseThenCallUnavailable ==
  \A c \in Calls :
    afterClose[c] =>
      /\ callSeq[c] = 0
      /\ c \notin PendingCalls
      /\ pc[c] \notin {"header", "write", "writeBody", "remove"}
      /\ pc[c] \in {"done", "unlock", "returned", "wait", "finished"}
           => callError[c] = ErrShutdown
      /\ pc[c] = "finished" => callResult[c] = ErrShutdown

\* C5 witness: a Call started after Close returned nil has returned, while
\* receive is still in its loop.
CallAfterCloseReturned ==
  \E c \in Calls :
    /\ afterClose[c]
    /\ pc[c] = "finished"
    /\ rpc = "readHeader"
    /\ ~shutdown

\* C6: the codec's Close is called at most once, and a Close that finds
\* closing already set returns ErrShutdown.
CodecClosedAtMostOnce ==
  /\ codecCloses <= 1
  /\ closes >= 2 => cret = ErrShutdown

\* C6 witness: a second Close has returned, after a Close that followed an
\* error-initiated shutdown.
SecondCloseAfterShutdown ==
  /\ closes = 2
  /\ shutdown
  /\ codecCloses = 1
  /\ cret = ErrShutdown

\* C7: a call completed without error holds in its reply target the body of
\* a response whose header carried the call's own sequence number, and Call
\* returns nil for it.
ReplyMatchesSequence ==
  \A c \in Calls :
    (delivered[c] = 1 /\ callError[c] = NoErr) =>
      /\ replyFrom[c].Seq = callSeq[c]
      /\ callReply[c] = replyFrom[c].Body
      /\ callReply[c] \in Bodies
      /\ pc[c] = "finished" => callResult[c] = NoErr

\* C7 witness: the response to sequence 2 was handled first: that call is
\* complete without error while the call with sequence 1, written
\* successfully, is still pending.
SecondAnsweredFirst ==
  \E a, b \in Calls :
    /\ callSeq[a] = 1 /\ callSeq[b] = 2
    /\ wres[a] = NoErr /\ a \in PendingCalls
    /\ delivered[b] = 1 /\ callError[b] = NoErr
    /\ pc[b] = "finished"

HoldsSending(c) ==
  pc[c] \in {"register", "header", "write", "writeBody", "remove", "done", "unlock"}

\* C8: at most one send is inside the sending critical section; while it is
\* between filling the header and the return of Write the header is its own,
\* and the stream is a sequence of header frames each followed by the body of
\* the same request.
WireNeverInterleaves ==
  /\ \A c, d \in Calls : (HoldsSending(c) /\ HoldsSending(d)) => c = d
  /\ \A c \in Calls :
       pc[c] \in {"write", "writeBody"} =>
         /\ sending = c
         /\ header.Seq = callSeq[c]
         /\ header.Service = c
  /\ \A i \in 1..Len(wire) :
       IF i % 2 = 1
       THEN /\ wire[i].frame = "header"
            /\ wire[i].seq = callSeq[wire[i].call]
            /\ i = Len(wire) => pc[wire[i].call] = "writeBody"
       ELSE /\ wire[i].frame = "body"
            /\ wire[i].call = wire[i - 1].call
            /\ wire[i].seq = wire[i - 1].seq

\* C8 witness: one send is in the middle of Write while another caller waits
\* for the sending lock.
SendWaitsForWriter ==
  \E c, d \in Calls :
    /\ pc[c] = "writeBody"
    /\ pc[d] = "lock"
    /\ Len(wire) = 1

\* C9: no completion delivery ever finds its channel full.
DeliveryNeverBlocks ==
  /\ \A c \in Calls : pc[c] = "done" => CanDeliver(c)
  /\ rpc = "done" => CanDeliver(rcall)
  /\ rpc = "termDone" => CanDeliver(tcur)

\* C10: a body of a normal response that cannot be decoded never makes
\* receive leave its loop and run terminateCalls.
DecodeFailureNotFatal ==
  ~(rcase = "normal" /\ rerr # NoErr /\ rpc \in TermPcs)

\* C11: a response whose header carries an error completes the call that has
\* the header's sequence number, and that call's error is the message of the
\* header.
RemoteErrorIsMessage ==
  (rcase = "remote" /\ rpc \in {"readBody", "done"}) =>
    /\ callSeq[rcall] = rheader.Seq
    /\ callError[rcall] = rheader.Error

OthersUntouched(c) ==
  /\ \A d \in Calls \ {c} :
       /\ callError'[d] = callError[d]
       /\ callReply'[d] = callReply[d]
       /\ delivered'[d] = delivered[d]
  /\ closing' = closing
  /\ shutdown' = shutdown
  /\ recvVars' = recvVars

\* C12: the step that handles a failed Write removes only the entry of that
\* call from pending and, if the call was still there, gives it the write
\* error, which the following done() delivers once; closing, shutdown, the
\* other calls and the state of receive stay as they are.
WriteFailureIsLocal ==
  [][\A c \in Calls :
       /\ (pc[c] = "remove" /\ pc'[c] # "remove") =>
            /\ DOMAIN pending' = (DOMAIN pending) \ {callSeq[c]}
            /\ \A k \in DOMAIN pending' : pending'[k] = pending[k]
            /\ OthersUntouched(c)
            /\ delivered'[c] = delivered[c]
            /\ IF c \in PendingCalls
               THEN callError'[c] = wres[c] /\ pc'[c] = "done"
               ELSE callError'[c] = callError[c] /\ pc'[c] = "unlock"
       /\ (pc[c] = "done" /\ pc'[c] # "done") =>
            /\ pending' = pending
            /\ OthersUntouched(c)
            /\ callError'[c] = callError[c]
            /\ delivered'[c] = delivered[c] + 1
     ]_vars

\* C12 witness: a call was completed with its write error while the other
\* call is still pending and receive still reads headers.
WriteFailedOtherPending ==
  \E c, d \in Calls :
    /\ callError[c] \in WriteErrors
    /\ delivered[c] = 1
    /\ pc[c] = "returned"
    /\ d \in PendingCalls /\ delivered[d] = 0
    /\ ~shutdown /\ ~closing
    /\ rpc = "readHeader"

BodyDue == bodyDue \in {0, 1} /\ (bodyDue = 1 <=> rpc \in {"remove", "readBody"})

\* C13: between two header reads receive reads exactly one body: a body is
\* due exactly from a successful header read to the body read.  The body of
\* a response without a pending call is read and discarded: the read
\* completes no call, writes no Error or Reply, and when it succeeds receive
\* reads the next header.
OneBodyReadPerHeader ==
  [][/\ BodyDue /\ BodyDue'
     /\ (rpc = "readBody" /\ rcase = "nil" /\ rpc' # "readBody") =>
          /\ bodyDue' = 0
          /\ callError' = callError
          /\ callReply' = callReply
          /\ delivered' = delivered
          /\ chans' = chans
          /\ pending' = pending
          /\ rpc' = IF rerr' = NoErr THEN "readHeader" ELSE "termLock"
    ]_vars

\* C13 witness: the response to a call whose Write failed, and which send
\* removed itself, has arrived: no call matches, the body is due, and the
\* other call is still waiting for its response.
OrphanBodyDue ==
  \E c, d \in Calls :
    /\ rpc = "readBody" /\ rcase = "nil" /\ bodyDue = 1
    /\ rheader.Seq = callSeq[c]
    /\ callError[c] \in WriteErrors /\ delivered[c] = 1
    /\ d \in PendingCalls /\ delivered[d] = 0

\* C14: a Go with a channel of capacity 0 panics before anything else: the
\* call has no sequence number, is not in pending, has written no frame,
\* has no completion event, no Error, and does not hold the sending lock.
UnbufferedGoPanics ==
  \A c \in Calls :
    kind[c] = "Unbuffered" =>
      /\ pc[c] = "panicked"
      /\ callSeq[c] = 0
      /\ c \notin PendingCalls
      /\ \A i \in 1..Len(wire) : wire[i].call # c
      /\ delivered[c] = 0
      /\ callError[c] = NoErr
      /\ sending # c
      /\ \A i \in 1..Len(regOrder) : regOrder[i] # c

\* C14 witness: a Go with an unbuffered channel has panicked while another
\* call is registered and pending; the counter is still one past that call.
PanickedBesidePending ==
  \E c, d \in Calls :
    /\ pc[c] = "panicked"
    /\ d \in PendingCalls
    /\ seq = 2
    /\ sending = Free

\* C15: while terminateCalls holds the locks no send is between its lock and
\* its unlock; once terminateCalls has returned every call in pending has
\* received its completion event, and from the moment shutdown is set no
\* call is registered.
TerminateExcludesSend ==
  [][/\ rpc' \in {"termMu", "termLoop", "termDone"} =>
          \A c \in Calls : ~HoldsSending(c)'
     /\ rpc' = "exited" => \A c \in PendingCalls' : delivered'[c] = 1
     /\ shutdown => (regOrder' = regOrder /\ pending' = pending /\ seq' = seq)
    ]_vars

\* C15 witness: terminateCalls has returned, having completed a pending
\* call, and a send that came later was refused and wrote nothing.
SendAfterTerminate ==
  \E c, d \in Calls :
    /\ rpc = "exited"
    /\ c \in PendingCalls /\ delivered[c] = 1 /\ callError[c] = rerr
    /\ afterClose[d] = FALSE /\ ~closing
    /\ pc[d] = "returned" /\ callError[d] = ErrShutdown
    /\ Len(wire) = 2

\* C16: a registerCall that finds closing or shutdown set gives the call
\* ErrShutdown and changes neither the sequence counter nor pending, and the
\* send it belongs to goes straight to done() and return: no header is
\* filled and nothing is written.
RefusedRegistrationIsInert ==
  [][\A c \in Calls :
       /\ (pc[c] = "register" /\ pc'[c] # "register" /\ (closing \/ shutdown)) =>
            /\ seq' = seq
            /\ pending' = pending
            /\ callSeq'[c] = 0
            /\ callError'[c] = ErrShutdown
            /\ pc'[c] = "done"
            /\ header' = header
            /\ wire' = wire
       /\ (callError[c] = ErrShutdown /\ pc[c] # pc'[c]) =>
            /\ pc'[c] \in {"unlock", "returned", "wait", "finished"}
            /\ header' = header
            /\ wire' = wire
            /\ seq' = seq
            /\ pending' = pending
    ]_vars

\* C16 witness: after an error-initiated shutdown (closing is not set) a
\* send was refused: the counter still stands one past the single earlier
\* registration and the wire holds only that request.
RefusedAfterShutdown ==
  \E c \in Calls :
    /\ shutdown /\ ~closing
    /\ callError[c] = ErrShutdown /\ callSeq[c] = 0
    /\ pc[c] \in {"returned", "wait"}
    /\ seq = 2
    /\ Len(wire) = 2 /\ wire[1].call # c

\* C17: once the completion event of a call has been delivered, no step
\* writes the Error or the Reply of that call.
NoWriteAfterCompletion ==
  [][\A c \in Calls :
       delivered[c] >= 1 =>
         /\ callError'[c] = callError[c]
         /\ callReply'[c] = callReply[c]
    ]_vars

\* C17 witness: a call was completed by a reply, another by its failed
\* Write, and terminateCalls has run to its end afterwards: both calls still
\* hold what their own path wrote.
CompletedSurviveTerminate ==
  \E c, d \in Calls :
    /\ rpc = "exited"
    /\ delivered[c] = 1 /\ callError[c] = NoErr /\ callReply[c] \in Bodies
    /\ delivered[d] = 1 /\ callError[d] \in WriteErrors

\* C18: closing and shutdown never go back to false, so IsAvailable never
\* turns true again; shutdown is set only by terminateCalls, run by receive
\* with the read error that ended its loop, and a Close sets closing at most.
FlagsOnlyRise ==
  [][/\ closing => closing'
     /\ shutdown => shutdown'
     /\ IsAvailable' => IsAvailable
     /\ (shutdown' # shutdown) =>
          /\ rpc = "termMu" /\ rpc' = "termLoop"
          /\ rerr \in ReadHeaderErrors \cup ReadBodyErrors
          /\ closing' = closing
     /\ (closes' # closes) => shutdown' = shutdown
     /\ (closing' # closing) => closes' = closes + 1
    ]_vars

\* C18 witness: both flags are set, closing by a Close and shutdown by the
\* terminateCalls that followed a failed read.
ClosedAndShutDown ==
  /\ closing /\ shutdown
  /\ ~IsAvailable
  /\ closes >= 1
  /\ rpc = "exited" /\ rerr \in ReadHeaderErrors

\* C19: the i-th Write carries sequence number i, so the Writes happen in
\* strictly increasing order of sequence number, and every registered call
\* has exactly one Write, begun at the latest when its send is past the
\* header.
WritesInSeqOrder ==
  /\ \A i \in 1..Len(wire) :
       wire[i].frame = "header" => wire[i].seq = (i + 1) \div 2
  /\ \A c \in Calls :
       LET writes == {i \in 1..Len(wire) :
                        wire[i].frame = "header" /\ wire[i].call = c}
       IN  Cardinality(writes) =
             IF callSeq[c] # 0 /\ pc[c] \notin {"header", "write"} THEN 1 ELSE 0

\* C19 witness: both calls are registered; the Write of the first failed and
\* was not repeated, the second was written after it.
FailedWriteNotRetried ==
  \E c, d \in Calls :
    /\ callSeq[c] = 1 /\ callSeq[d] = 2
    /\ wres[c] \in WriteErrors /\ pc[c] = "returned"
    /\ wres[d] = NoErr
    /\ Len(wire) = 4

\* C20: a Close delivers no completion event and changes neither pending
\* nor shutdown, and, given a codec whose reads fail once it is closed, every
\* call that is pending when the client is closing eventually has exactly
\* one completion event and a non-nil error.
CloseLeavesCallsToReceive ==
  /\ [][(closes' # closes) =>
          /\ delivered' = delivered
          /\ chans' = chans
          /\ pending' = pending
          /\ shutdown' = shutdown
          /\ callError' = callError
       ]_vars
  /\ \A c \in Calls :
       (closing /\ c \in PendingCalls) ~> (delivered[c] = 1 /\ callError[c] # NoErr)

====
